---- MODULE Spec2Model ----
(***************************************************************************)
(* Model of the ME507 support library: Queue<T> (taskqueue.h), Share<T>    *)
(* (taskshare.h) and their base class, running on the FreeRTOS kernel.     *)
(* The kernel's queue primitives are modelled by their documented effect   *)
(* on a kernel queue object [uxLength, items].                             *)
(***************************************************************************)
EXTENDS Integers, Sequences, FiniteSets, TLC

\* ------------------------------------------------------------------ bounds
MaxVal == 1
MaxQueueSize == 2
\* most items ever held by a queue of more than 65535 elements
MaxFill == 3
\* longest finite wait time, in ticks, a queue is constructed with
MaxWait == 1
\* longest name handed to a constructor, in characters
MaxName == 17
\* most entries ever registered
MaxEntries == 3

\* --------------------------------------------------------------- constants
\* (TickType_t) -1, "wait forever"; its value with 16-bit ticks
portMAX_DELAY == 65535
NULL == 0

Values == 0..MaxVal
NoVal == -1
Tasks == {"t1", "t2"}
ISR == "isr"
Ctx == Tasks \cup {ISR}

VARIABLES
    \* Share<DataType>
    queue,          \* Share::queue, the handle of the one-deep kernel queue
    sh_store,       \* the kernel queue object behind Share::queue
    sh_pc,          \* per task: "idle" or the Share call it is suspended in
    sh_var,         \* per context: the caller's variable given to get / >>
    sh_last,        \* the most recent completed Share call
    sh_lastWrite,   \* value of the most recently completed write, or NoVal
    sh_writer,      \* the context that made that write
    sh_over,        \* the value that write replaced, NoVal for an empty slot
    sh_fresh,       \* per context: read completed and no write since
    sh_reads        \* values handed to readers since the last write

VARIABLES
    \* Queue<dataType>
    handle,         \* Queue::handle: NULL or the kernel queue's handle
    q_store,        \* the kernel queue object behind Queue::handle
    ticks_to_wait,  \* Queue::ticks_to_wait
    buf_size,       \* Queue::buf_size (uint16_t)
    max_full,       \* Queue::max_full (uint16_t)
    queue_size,     \* the capacity the constructor was called with
    fault,          \* a kernel call was made on a NULL handle
    q_pc,           \* per task: position inside a Queue call, or "idle"
    q_item,         \* per task: the item of the put / butt_in it is suspended in
    return_value,   \* per task: put's local return_value
    fillage,        \* per task: put's local fillage (uint16_t)
                    \* (both locals are cleared when put returns)
    recv_item,      \* the variable that callers hand to get / peek
    q_last,         \* the most recent completed kernel call made by a Queue method
    balance,        \* successful enqueues minus delivered dequeues
    usedFront,      \* some butt_in / ISR_butt_in has succeeded
    q_exp,          \* items put and not yet got, in put order (while ~usedFront)
    b_snap,         \* <<x>> \o contents at the latest successful butt_in(x),
                    \* less the items dequeued since
    b_k,            \* number of items that butt_in found in the queue
    front_open,     \* item of the latest butt_in if nothing was dequeued since
    pair,           \* <<a, b>>: butt_in(a), butt_in(b) with no dequeue between
    pair_n,         \* number of items dequeued after that pair (0 or 1)
    elapsed         \* per task: ticks since the Queue call it is in was made

VARIABLES
    \* Mutex
    mx_sem,         \* the kernel mutex behind Mutex::handle
    mx_timeout,     \* Mutex::timeout
    mx_pc,          \* per task: "idle" or "take" (suspended in take)
    mx_result,      \* per task: what its most recent take returned, or NoVal
    mx_held,        \* per task: a take returned true and no give followed
    mx_last,        \* the most recent completed take or give
    mx_elapsed,     \* per task: ticks spent suspended in take
    mx_fault        \* the kernel has stopped on a failed assertion

qvars == <<handle, q_store, ticks_to_wait, buf_size, max_full, queue_size,
           fault, q_pc, q_item, return_value, fillage, recv_item, q_last,
           balance, usedFront, q_exp, b_snap, b_k, front_open, pair,
           pair_n, elapsed>>

shvars == <<queue, sh_store, sh_pc, sh_var, sh_last, sh_lastWrite, sh_writer,
            sh_over, sh_fresh, sh_reads>>

VARIABLES
    \* BaseShare: one entry's name
    nm_arg,         \* the constructor's p_name: NULL or a string
    nm_buf,         \* BaseShare::name, a buffer of 16 characters
    nm_str,         \* name read as a NUL-terminated string, once constructed
    nm_done         \* the constructor has run

VARIABLES
    \* BaseShare: the list of entries
    p_newest,       \* BaseShare::p_newest: NULL or the newest entry
    entries,        \* the entries constructed so far, by number 1, 2, ...
    rg_out,         \* what print_all_shares has printed, line by line
    rg_visited,     \* the entries whose print_in_list has run, in order
    rg_state        \* "idle", "printed" or "fault"

VARIABLES
    \* Queue<T> used by one context at a time
    sq_store,       \* the kernel queue object behind handle
    sq_max_full,    \* Queue::max_full
    sq_peak,        \* the most items the queue has held since creation
    sq_last         \* the latest call, what it returned, what it found

VARIABLES
    \* BaseShare: constructors that run as tasks
    rg_ctor         \* per task, the entry whose constructor it is inside

nmvars == <<nm_arg, nm_buf, nm_str, nm_done>>

sqvars == <<sq_store, sq_max_full, sq_peak, sq_last>>

rgvars == <<p_newest, entries, rg_out, rg_visited, rg_state>>

mxvars == <<mx_sem, mx_timeout, mx_pc, mx_result, mx_held, mx_last,
            mx_elapsed, mx_fault>>

\* what neither the Queue nor the Share touches
xvars == <<mxvars, nmvars, rgvars, sqvars, rg_ctor>>

vars == <<qvars, shvars, xvars>>

\* ------------------------------------------------------------------ Mutex
NoTask == "none"
pdTRUE == 1
pdFALSE == 0

\* a kernel mutex is held by one task or by none
xSemaphoreCreateMutex == [holder |-> NoTask]

\* mutant: a take that fails makes the caller the holder all the same
xSemaphoreTake_steals(sem, t, xTicksToWait) ==
    IF sem.holder = NoTask
    THEN [store |-> [sem EXCEPT !.holder = t], ret |-> pdTRUE,
          blocked |-> FALSE, wait |-> xTicksToWait, assert |-> FALSE]
    ELSE [store |-> [sem EXCEPT !.holder = t], ret |-> pdFALSE,
          blocked |-> (xTicksToWait > 0), wait |-> xTicksToWait,
          assert |-> FALSE]

\* task t takes the mutex: at once when it is free; otherwise t waits
\* (ticks > 0) or gets pdFALSE
xSemaphoreTake(sem, t, xTicksToWait) ==
    IF sem.holder = NoTask
    THEN [store |-> [sem EXCEPT !.holder = t], ret |-> pdTRUE,
          blocked |-> FALSE, wait |-> xTicksToWait, assert |-> FALSE]
    ELSE [store |-> sem, ret |-> pdFALSE,
          blocked |-> (xTicksToWait > 0), wait |-> xTicksToWait,
          assert |-> FALSE]

\* task t gives the mutex: the holder frees it; giving a free mutex fails;
\* giving a mutex another task holds fails the kernel's assertion that the
\* giver is the holder
xSemaphoreGive(sem, t) ==
    IF sem.holder = t
    THEN [store |-> [sem EXCEPT !.holder = NoTask], ret |-> pdTRUE,
          blocked |-> FALSE, assert |-> FALSE]
    ELSE [store |-> sem, ret |-> pdFALSE, blocked |-> FALSE,
          assert |-> (sem.holder # NoTask)]

\* mutant: `result = pdTRUE` in place of the comparison
Mutex_take_assign(sem, t, timeout) ==
    LET result == xSemaphoreTake(sem, t, timeout)
    IN  [store |-> result.store, ret |-> TRUE,
         blocked |-> result.blocked, wait |-> result.wait]

\* bool take (void): result == pdTRUE
Mutex_take(sem, t, timeout) ==
    LET result == xSemaphoreTake(sem, t, timeout)
    IN  [store |-> result.store, ret |-> (result.ret = pdTRUE),
         blocked |-> result.blocked, wait |-> result.wait]

\* void give (void)
Mutex_give(sem, t) == xSemaphoreGive(sem, t)

NoMxCall == [op |-> "none", task |-> NoTask, ret |-> FALSE]

\* Mutex (timeout)
MutexCreated(timeout) ==
    /\ mx_sem = xSemaphoreCreateMutex
    /\ mx_timeout = timeout
    /\ mx_pc = [t \in Tasks |-> "idle"]
    /\ mx_result = [t \in Tasks |-> NoVal]
    /\ mx_held = [t \in Tasks |-> FALSE]
    /\ mx_last = NoMxCall
    /\ mx_elapsed = [t \in Tasks |-> 0]
    /\ mx_fault = FALSE

MutexInit ==
    \E timeout \in (0..MaxWait) \cup {portMAX_DELAY} : MutexCreated(timeout)

\* the Mutex while something else is exercised
MutexQuiet == MutexCreated(portMAX_DELAY)

\* the take of task t has returned r.ret
MutexTaken(t, r) ==
    /\ mx_sem' = r.store
    /\ mx_result' = [mx_result EXCEPT ![t] = IF r.ret THEN pdTRUE ELSE pdFALSE]
    /\ mx_held' = [mx_held EXCEPT ![t] = mx_held[t] \/ r.ret]
    /\ mx_last' = [op |-> "take", task |-> t, ret |-> r.ret]
    /\ mx_pc' = [mx_pc EXCEPT ![t] = "idle"]
    /\ mx_elapsed' = [mx_elapsed EXCEPT ![t] = 0]
    /\ UNCHANGED <<mx_timeout, mx_fault>>
    /\ UNCHANGED <<qvars, shvars, nmvars, rgvars, sqvars, rg_ctor>>

\* A task calls take: the kernel call completes at once or suspends it.
MutexTake(t) ==
    /\ ~mx_fault
    /\ mx_pc[t] = "idle"
    /\ LET r == Mutex_take(mx_sem, t, mx_timeout) IN
         IF r.blocked
         THEN /\ mx_pc' = [mx_pc EXCEPT ![t] = "take"]
              /\ UNCHANGED <<mx_sem, mx_timeout, mx_result, mx_held, mx_last,
                             mx_elapsed, mx_fault>>
              /\ UNCHANGED <<qvars, shvars, nmvars, rgvars, sqvars, rg_ctor>>
         ELSE MutexTaken(t, r)

\* the kernel readies a suspended taker once the mutex is free
MutexResume(t) ==
    /\ ~mx_fault
    /\ mx_pc[t] = "take"
    /\ LET r == Mutex_take(mx_sem, t, mx_timeout) IN
         /\ r.ret
         /\ MutexTaken(t, r)

\* the wait of a suspended taker has expired with the mutex still held
MutexTimeout(t) ==
    /\ ~mx_fault
    /\ mx_pc[t] = "take"
    /\ LET r == Mutex_take(mx_sem, t, mx_timeout) IN
         /\ r.blocked
         /\ r.wait # portMAX_DELAY /\ mx_elapsed[t] >= r.wait
         /\ MutexTaken(t, r)

\* The tick interrupt: one tick passes for every suspended taker; no tick
\* passes a taker whose wait is over.
MutexTick ==
    /\ ~mx_fault
    /\ \E t \in Tasks : mx_pc[t] = "take" /\ mx_elapsed[t] <= MaxWait
    /\ \A t \in Tasks : mx_pc[t] = "take" =>
          LET w == Mutex_take(mx_sem, t, mx_timeout).wait
          IN  w = portMAX_DELAY \/ mx_elapsed[t] < w
    /\ mx_elapsed' = [t \in Tasks |->
                        IF mx_pc[t] = "take" /\ mx_elapsed[t] <= MaxWait
                        THEN mx_elapsed[t] + 1 ELSE mx_elapsed[t]]
    /\ UNCHANGED <<mx_sem, mx_timeout, mx_pc, mx_result, mx_held, mx_last,
                   mx_fault>>
    /\ UNCHANGED <<qvars, shvars, nmvars, rgvars, sqvars, rg_ctor>>

\* A task whose most recent take returned true calls give.
MutexGive(t) ==
    /\ ~mx_fault
    /\ mx_pc[t] = "idle"
    /\ mx_result[t] = pdTRUE
    /\ LET r == Mutex_give(mx_sem, t) IN
         /\ mx_sem' = r.store
         /\ mx_fault' = r.assert
         /\ mx_held' = [mx_held EXCEPT ![t] = FALSE]
         /\ mx_last' = [op |-> "give", task |-> t, ret |-> (r.ret = pdTRUE)]
    /\ UNCHANGED <<mx_timeout, mx_pc, mx_result, mx_elapsed>>
    /\ UNCHANGED <<qvars, shvars, nmvars, rgvars, sqvars, rg_ctor>>

\* ------------------------------------------------ characters and strings
\* A character is a one-character string, a string a sequence of characters;
\* NUL is the terminator.
NUL == ""
SPACE == " "
NameSize == 16
ZeroBuf == [i \in 1..NameSize |-> NUL]
NullName == [null |-> TRUE, str |-> <<>>]
NoStr == <<"-">>

\* the name and the list while something else is exercised
NameQuiet ==
    /\ nm_arg = NullName
    /\ nm_buf = ZeroBuf
    /\ nm_str = NoStr
    /\ nm_done = FALSE

RegistryQuiet ==
    /\ p_newest = NULL
    /\ entries = <<>>
    /\ rg_out = <<>>
    /\ rg_visited = <<>>
    /\ rg_state = "idle"

\* no constructor is running
CtorQuiet == rg_ctor = [t \in Tasks |-> NULL]

NoSerialCall == [op |-> "none", ret |-> FALSE, n |-> 0, item |-> NoVal]

\* the queue used by one context at a time, while something else is
\* exercised: one place, nothing in it
SerialQuiet ==
    /\ sq_store = [uxLength |-> 1, items |-> <<>>]
    /\ sq_max_full = 0
    /\ sq_peak = 0
    /\ sq_last = NoSerialCall

YQuiet == SerialQuiet /\ CtorQuiet

XQuiet == MutexQuiet /\ NameQuiet /\ RegistryQuiet /\ YQuiet

MutexNext ==
    \/ \E t \in Tasks : MutexTake(t)
    \/ \E t \in Tasks : MutexResume(t)
    \/ \E t \in Tasks : MutexTimeout(t)
    \/ \E t \in Tasks : MutexGive(t)
    \/ MutexTick

\* ------------------------------------------------- FreeRTOS queue kernel
\* Each primitive returns the new queue object, its return code, the value
\* copied out (reads) and whether the calling task would be suspended; the
\* primitives that can suspend also return the longest wait they were given.

xQueueCreate(uxQueueLength) ==
    [uxLength |-> uxQueueLength, items |-> <<>>]

uxQueueMessagesWaiting(pxQueue) == Len(pxQueue.items)

uxQueueMessagesWaitingFromISR(pxQueue) == Len(pxQueue.items)

xQueueOverwrite(pxQueue, item) ==
    [store |-> [pxQueue EXCEPT !.items = <<item>>],
     ret |-> TRUE, blocked |-> FALSE, api |-> "xQueueOverwrite"]

xQueueOverwriteFromISR(pxQueue, item) ==
    [store |-> [pxQueue EXCEPT !.items = <<item>>],
     ret |-> TRUE, blocked |-> FALSE, api |-> "xQueueOverwriteFromISR"]

\* copies the head into the buffer when there is one; otherwise the buffer
\* keeps its content and the caller waits (ticks > 0) or gets errQUEUE_EMPTY
xQueuePeek(pxQueue, buffer, xTicksToWait) ==
    IF pxQueue.items # <<>>
    THEN [store |-> pxQueue, ret |-> TRUE, out |-> Head(pxQueue.items),
          blocked |-> FALSE, api |-> "xQueuePeek",
          wait |-> xTicksToWait]
    ELSE [store |-> pxQueue, ret |-> FALSE, out |-> buffer,
          blocked |-> (xTicksToWait > 0), api |-> "xQueuePeek",
          wait |-> xTicksToWait]

\* mutant: a peek from an ISR takes the item it found out of the queue
xQueuePeekFromISR_removes(pxQueue, buffer) ==
    IF pxQueue.items # <<>>
    THEN [store |-> [pxQueue EXCEPT !.items = Tail(pxQueue.items)],
          ret |-> TRUE, out |-> Head(pxQueue.items),
          blocked |-> FALSE, api |-> "xQueuePeekFromISR"]
    ELSE [store |-> pxQueue, ret |-> FALSE, out |-> buffer,
          blocked |-> FALSE, api |-> "xQueuePeekFromISR"]

xQueuePeekFromISR(pxQueue, buffer) ==
    IF pxQueue.items # <<>>
    THEN [store |-> pxQueue, ret |-> TRUE, out |-> Head(pxQueue.items),
          blocked |-> FALSE, api |-> "xQueuePeekFromISR"]
    ELSE [store |-> pxQueue, ret |-> FALSE, out |-> buffer,
          blocked |-> FALSE, api |-> "xQueuePeekFromISR"]

\* mutant: a receive that finds nothing clears the caller's buffer
xQueueReceive_clears(pxQueue, buffer, xTicksToWait) ==
    IF pxQueue.items # <<>>
    THEN [store |-> [pxQueue EXCEPT !.items = Tail(pxQueue.items)],
          ret |-> TRUE, out |-> Head(pxQueue.items),
          blocked |-> FALSE, api |-> "xQueueReceive",
          wait |-> xTicksToWait]
    ELSE [store |-> pxQueue, ret |-> FALSE, out |-> 0,
          blocked |-> (xTicksToWait > 0), api |-> "xQueueReceive",
          wait |-> xTicksToWait]

xQueueReceive(pxQueue, buffer, xTicksToWait) ==
    IF pxQueue.items # <<>>
    THEN [store |-> [pxQueue EXCEPT !.items = Tail(pxQueue.items)],
          ret |-> TRUE, out |-> Head(pxQueue.items),
          blocked |-> FALSE, api |-> "xQueueReceive",
          wait |-> xTicksToWait]
    ELSE [store |-> pxQueue, ret |-> FALSE, out |-> buffer,
          blocked |-> (xTicksToWait > 0), api |-> "xQueueReceive",
          wait |-> xTicksToWait]

\* mutant: a receive from an ISR hands out the head and leaves it queued
xQueueReceiveFromISR_keeps(pxQueue, buffer) ==
    IF pxQueue.items # <<>>
    THEN [store |-> pxQueue,
          ret |-> TRUE, out |-> Head(pxQueue.items),
          blocked |-> FALSE, api |-> "xQueueReceiveFromISR"]
    ELSE [store |-> pxQueue, ret |-> FALSE, out |-> buffer,
          blocked |-> FALSE, api |-> "xQueueReceiveFromISR"]

xQueueReceiveFromISR(pxQueue, buffer) ==
    IF pxQueue.items # <<>>
    THEN [store |-> [pxQueue EXCEPT !.items = Tail(pxQueue.items)],
          ret |-> TRUE, out |-> Head(pxQueue.items),
          blocked |-> FALSE, api |-> "xQueueReceiveFromISR"]
    ELSE [store |-> pxQueue, ret |-> FALSE, out |-> buffer,
          blocked |-> FALSE, api |-> "xQueueReceiveFromISR"]

\* mutant: a full queue suspends the sender whatever the wait time
xQueueSendToBack_waits(pxQueue, item, xTicksToWait) ==
    IF Len(pxQueue.items) < pxQueue.uxLength
    THEN [store |-> [pxQueue EXCEPT !.items = Append(pxQueue.items, item)],
          ret |-> TRUE, blocked |-> FALSE, api |-> "xQueueSendToBack",
          wait |-> xTicksToWait]
    ELSE [store |-> pxQueue, ret |-> FALSE,
          blocked |-> TRUE, api |-> "xQueueSendToBack",
          wait |-> portMAX_DELAY]

xQueueSendToBack(pxQueue, item, xTicksToWait) ==
    IF Len(pxQueue.items) < pxQueue.uxLength
    THEN [store |-> [pxQueue EXCEPT !.items = Append(pxQueue.items, item)],
          ret |-> TRUE, blocked |-> FALSE, api |-> "xQueueSendToBack",
          wait |-> xTicksToWait]
    ELSE [store |-> pxQueue, ret |-> FALSE,
          blocked |-> (xTicksToWait > 0), api |-> "xQueueSendToBack",
          wait |-> xTicksToWait]

xQueueSendToBackFromISR(pxQueue, item) ==
    IF Len(pxQueue.items) < pxQueue.uxLength
    THEN [store |-> [pxQueue EXCEPT !.items = Append(pxQueue.items, item)],
          ret |-> TRUE, blocked |-> FALSE, api |-> "xQueueSendToBackFromISR"]
    ELSE [store |-> pxQueue, ret |-> FALSE,
          blocked |-> FALSE, api |-> "xQueueSendToBackFromISR"]

\* mutant: a send to the front that fails replaces the head with its item
xQueueSendToFront_overwrite(pxQueue, item, xTicksToWait) ==
    IF Len(pxQueue.items) < pxQueue.uxLength
    THEN [store |-> [pxQueue EXCEPT !.items = <<item>> \o pxQueue.items],
          ret |-> TRUE, blocked |-> FALSE, api |-> "xQueueSendToFront",
          wait |-> xTicksToWait]
    ELSE [store |-> [pxQueue EXCEPT !.items = <<item>> \o Tail(pxQueue.items)],
          ret |-> FALSE,
          blocked |-> (xTicksToWait > 0), api |-> "xQueueSendToFront",
          wait |-> xTicksToWait]

xQueueSendToFront(pxQueue, item, xTicksToWait) ==
    IF Len(pxQueue.items) < pxQueue.uxLength
    THEN [store |-> [pxQueue EXCEPT !.items = <<item>> \o pxQueue.items],
          ret |-> TRUE, blocked |-> FALSE, api |-> "xQueueSendToFront",
          wait |-> xTicksToWait]
    ELSE [store |-> pxQueue, ret |-> FALSE,
          blocked |-> (xTicksToWait > 0), api |-> "xQueueSendToFront",
          wait |-> xTicksToWait]

xQueueSendToFrontFromISR(pxQueue, item) ==
    IF Len(pxQueue.items) < pxQueue.uxLength
    THEN [store |-> [pxQueue EXCEPT !.items = <<item>> \o pxQueue.items],
          ret |-> TRUE, blocked |-> FALSE, api |-> "xQueueSendToFrontFromISR"]
    ELSE [store |-> pxQueue, ret |-> FALSE,
          blocked |-> FALSE, api |-> "xQueueSendToFrontFromISR"]

CHECK_IF_IN_ISR(c) == c = ISR

\* ------------------------------------------------------------ Queue<T>
uint16(n) == n % 65536

\* mutant: the kernel queue is created one element larger than asked for
Queue_ctor_oversize(size, wait_time, alloc_ok) ==
    [handle |-> IF alloc_ok THEN 1 ELSE NULL,
     store |-> xQueueCreate(IF alloc_ok THEN size + 1 ELSE 0),
     ticks_to_wait |-> wait_time,
     buf_size |-> uint16(size),
     max_full |-> 0]

\* Queue (queue_size, p_name, wait_time); alloc_ok: xQueueCreate found memory
Queue_ctor(size, wait_time, alloc_ok) ==
    [handle |-> IF alloc_ok THEN 1 ELSE NULL,
     store |-> xQueueCreate(IF alloc_ok THEN size ELSE 0),
     ticks_to_wait |-> wait_time,
     buf_size |-> uint16(size),
     max_full |-> 0]

usable == handle # NULL

available == uxQueueMessagesWaiting(q_store)

ISR_available == uxQueueMessagesWaitingFromISR(q_store)

is_empty == uxQueueMessagesWaiting(q_store) = 0

any == uxQueueMessagesWaiting(q_store) # 0

\* the kernel call of each method, as a function of the kernel queue object
\* mutant: put sends to the front
Queue_put_front(st, item, ticks) == xQueueSendToFront(st, item, ticks)

Queue_put(st, item, ticks) == xQueueSendToBack(st, item, ticks)

\* mutant: butt_in sends to the back
Queue_butt_in_back(st, item, ticks) == xQueueSendToBack(st, item, ticks)

Queue_butt_in(st, item, ticks) == xQueueSendToFront(st, item, ticks)

\* mutant: get peeks
Queue_get_peek(st, recv, ticks) == xQueuePeek(st, recv, ticks)

Queue_get(st, recv, ticks) == xQueueReceive(st, recv, ticks)

\* mutant: peek receives
Queue_peek_receive(st, recv, ticks) == xQueueReceive(st, recv, ticks)

Queue_peek(st, recv, ticks) == xQueuePeek(st, recv, ticks)

\* mutant: ISR_get makes the task-level call get makes, waiting forever
Queue_ISR_get_waiting(st, recv) == xQueueReceive(st, recv, portMAX_DELAY)

Queue_ISR_get(st, recv) == xQueueReceiveFromISR(st, recv)

\* mutant: an ISR_peek that finds nothing hands back a default item
Queue_ISR_peek_default(st, recv) ==
    LET r == xQueuePeekFromISR(st, recv) IN
    IF r.ret THEN r ELSE [r EXCEPT !.out = 0]

Queue_ISR_peek(st, recv) == xQueuePeekFromISR(st, recv)

\* mutant: ISR_butt_in sends to the back
Queue_ISR_butt_in_back(st, item) ==
    LET r == xQueueSendToBackFromISR(st, item)
    IN  [store |-> r.store, ret |-> r.ret, blocked |-> r.blocked,
         api |-> r.api, yield |-> FALSE]

\* ISR_butt_in: the send; shouldSwitch, which the kernel fills in, is a
\* local that is not looked at again, so no context switch is requested
\* (yield)
Queue_ISR_butt_in(st, item) ==
    LET r == xQueueSendToFrontFromISR(st, item)
    IN  [store |-> r.store, ret |-> r.ret, blocked |-> r.blocked,
         api |-> r.api, yield |-> FALSE]

\* ISR_put: the send, then the high-water mark; `mark` is max_full afterwards.
\* shouldSwitch, which the kernel fills in, is a local that is not looked at
\* again, so no context switch is requested (yield).
Queue_ISR_put(st, item, mark) ==
    LET r == xQueueSendToBackFromISR(st, item)
        fill == uint16(uxQueueMessagesWaitingFromISR(r.store))
    IN  [store |-> r.store, ret |-> r.ret, blocked |-> r.blocked,
         api |-> r.api, mark |-> IF fill > mark THEN fill ELSE mark,
         yield |-> FALSE]

\* task priorities as given to xTaskCreate; the idle task runs at 0
Priority == [t \in Tasks |-> IF t = "t1" THEN 3 ELSE 4]
tskIDLE_PRIORITY == 0

\* The priority of the code an interrupt finds running: the highest
\* priority among the tasks not suspended in a Queue call, or the idle task.
InterruptedPriority ==
    LET ready == {t \in Tasks : q_pc[t] \notin {"put", "butt_in", "get", "peek"}}
    IN  IF ready = {} THEN tskIDLE_PRIORITY
        ELSE CHOOSE p \in {Priority[t] : t \in ready} :
                 \A t \in ready : Priority[t] <= p

\* what the kernel writes to shouldSwitch for the send r made from an ISR:
\* pdTRUE when the item readied a task that was suspended waiting for data
\* and has a higher priority than the interrupted code
shouldSwitch(r) ==
    /\ r.ret
    /\ \E t \in Tasks : /\ q_pc[t] \in {"get", "peek"}
                        /\ Priority[t] > InterruptedPriority

IsEnqBack(op) == op \in {"put", "ISR_put"}
IsEnqFront(op) == op \in {"butt_in", "ISR_butt_in"}
IsDeq(op) == op \in {"get", "ISR_get"}
IsPeek(op) == op \in {"peek", "ISR_peek"}

\* q_last: the method whose kernel call completed last and the kernel's
\* return code
NoQCall == [op |-> "none", ret |-> FALSE]

QueueCreated(size, wait_time, alloc_ok) ==
    LET q == Queue_ctor(size, wait_time, alloc_ok) IN
    /\ handle = q.handle
    /\ q_store = q.store
    /\ ticks_to_wait = q.ticks_to_wait
    /\ buf_size = q.buf_size
    /\ max_full = q.max_full
    /\ queue_size = size
    /\ fault = FALSE
    /\ q_pc = [t \in Tasks |-> "idle"]
    /\ q_item = [t \in Tasks |-> NoVal]
    /\ return_value = [t \in Tasks |-> FALSE]
    /\ fillage = [t \in Tasks |-> 0]
    /\ q_last = NoQCall
    /\ balance = 0
    /\ usedFront = FALSE
    /\ q_exp = <<>>
    /\ b_snap = <<>>
    /\ b_k = 0
    /\ front_open = NoVal
    /\ pair = <<>>
    /\ pair_n = 0
    /\ elapsed = [t \in Tasks |-> 0]

QueueInit ==
    /\ \E size \in 1..MaxQueueSize, wait_time \in {0, portMAX_DELAY},
          alloc_ok \in BOOLEAN : QueueCreated(size, wait_time, alloc_ok)
    /\ recv_item = NoVal

\* the Queue while only the Share is exercised
QueueQuiet ==
    /\ QueueCreated(1, portMAX_DELAY, TRUE)
    /\ recv_item = NoVal

\* mutant: peek waits forever whatever the queue's wait time
QueueKernel_peek_forever(op, item) ==
    LET buf == recv_item IN
    CASE op = "put"         -> Queue_put(q_store, item, ticks_to_wait)
      [] op = "butt_in"     -> Queue_butt_in(q_store, item, ticks_to_wait)
      [] op = "get"         -> Queue_get(q_store, buf, ticks_to_wait)
      [] op = "peek"        -> Queue_peek(q_store, buf, portMAX_DELAY)
      [] op = "ISR_put"     -> Queue_ISR_put(q_store, item, max_full)
      [] op = "ISR_butt_in" -> Queue_ISR_butt_in(q_store, item)
      [] op = "ISR_get"     -> Queue_ISR_get(q_store, buf)
      [] op = "ISR_peek"    -> Queue_ISR_peek(q_store, buf)

\* the kernel call a method makes; reads copy into recv_item
QueueKernel(op, item) ==
    LET buf == recv_item IN
    CASE op = "put"         -> Queue_put(q_store, item, ticks_to_wait)
      [] op = "butt_in"     -> Queue_butt_in(q_store, item, ticks_to_wait)
      [] op = "get"         -> Queue_get(q_store, buf, ticks_to_wait)
      [] op = "peek"        -> Queue_peek(q_store, buf, ticks_to_wait)
      [] op = "ISR_put"     -> Queue_ISR_put(q_store, item, max_full)
      [] op = "ISR_butt_in" -> Queue_ISR_butt_in(q_store, item)
      [] op = "ISR_get"     -> Queue_ISR_get(q_store, buf)
      [] op = "ISR_peek"    -> Queue_ISR_peek(q_store, buf)

\* effect of the completed kernel call r of method op (item: the item sent)
QueueDone(op, r, item) ==
    LET enqB == IsEnqBack(op) /\ r.ret
        enqF == IsEnqFront(op) /\ r.ret
        deq  == IsDeq(op) /\ r.ret
        read == IsDeq(op) \/ IsPeek(op)
    IN
    /\ q_store' = r.store
    /\ recv_item' = IF read THEN r.out ELSE recv_item
    /\ q_last' = [op |-> op, ret |-> r.ret]
    /\ balance' = balance + (IF enqB \/ enqF THEN 1 ELSE 0)
                          - (IF deq THEN 1 ELSE 0)
    /\ usedFront' = (usedFront \/ enqF)
    /\ q_exp' = IF usedFront \/ enqF THEN <<>>
                ELSE IF enqB THEN Append(q_exp, item)
                ELSE IF deq /\ q_exp # <<>> THEN Tail(q_exp)
                ELSE q_exp
    /\ b_snap' = IF enqF THEN <<item>> \o q_store.items
                 ELSE IF deq /\ b_snap # <<>> THEN Tail(b_snap)
                 ELSE b_snap
    /\ b_k' = IF enqF THEN Len(q_store.items)
              ELSE IF deq /\ b_snap = <<>> THEN 0
              ELSE b_k
    /\ front_open' = IF enqF THEN item ELSE IF deq THEN NoVal ELSE front_open
    /\ pair' = IF enqF
               THEN (IF front_open # NoVal THEN <<front_open, item>> ELSE <<>>)
               ELSE IF deq /\ pair_n = 1 THEN <<>>
               ELSE pair
    /\ pair_n' = IF enqF THEN 0
                 ELSE IF deq /\ pair # <<>> THEN (IF pair_n = 0 THEN 1 ELSE 0)
                 ELSE pair_n
    /\ UNCHANGED <<handle, ticks_to_wait, buf_size, queue_size, fault>>
    /\ UNCHANGED <<shvars, xvars>>

QueueGhostsUnchanged ==
    UNCHANGED <<q_last, balance, usedFront, q_exp, b_snap, b_k, front_open,
                pair, pair_n>>

\* the tick count of a call ends with the call
ElapsedKept ==
    elapsed' = [t \in Tasks |-> IF q_pc'[t] = "idle" THEN 0 ELSE elapsed[t]]

\* where a task goes after the kernel call of its method has completed
AfterKernel(op) == IF op = "put" THEN "put_fillage" ELSE "idle"

\* A task calls put (item), butt_in (item), get (recv_item) or peek
\* (recv_item): the kernel call of the method completes at once or suspends
\* the caller.
QueueTaskCall(t, op, item) ==
    /\ usable /\ ~fault
    /\ q_pc[t] = "idle"
    /\ op \in {"put", "butt_in", "get", "peek"}
    /\ item = NoVal <=> (IsDeq(op) \/ IsPeek(op))
    /\ LET r == QueueKernel(op, item) IN
         IF r.blocked
         THEN /\ q_pc' = [q_pc EXCEPT ![t] = op]
              /\ q_item' = [q_item EXCEPT ![t] = item]
              /\ QueueGhostsUnchanged
              /\ UNCHANGED <<handle, q_store, ticks_to_wait, buf_size,
                             max_full, queue_size, fault, return_value,
                             fillage, recv_item, elapsed>>
              /\ UNCHANGED <<shvars, xvars>>
         ELSE /\ QueueDone(op, r, item)
              /\ q_pc' = [q_pc EXCEPT ![t] = AfterKernel(op)]
              /\ return_value' = IF op = "put"
                                 THEN [return_value EXCEPT ![t] = r.ret]
                                 ELSE return_value
              /\ UNCHANGED <<q_item, max_full, fillage, elapsed>>

\* the kernel makes a suspended caller ready once its call can complete
QueueTaskResume(t) ==
    /\ usable /\ ~fault
    /\ q_pc[t] \in {"put", "butt_in", "get", "peek"}
    /\ LET op == q_pc[t]
           r == QueueKernel(op, q_item[t]) IN
         /\ ~r.blocked /\ r.ret
         /\ QueueDone(op, r, q_item[t])
         /\ q_pc' = [q_pc EXCEPT ![t] = AfterKernel(op)]
         /\ q_item' = [q_item EXCEPT ![t] = NoVal]
         /\ return_value' = IF op = "put"
                            THEN [return_value EXCEPT ![t] = r.ret]
                            ELSE return_value
         /\ ElapsedKept
         /\ UNCHANGED <<max_full, fillage>>

\* put: uint16_t fillage = uxQueueMessagesWaiting (handle)
QueuePutFillage(t) ==
    /\ q_pc[t] = "put_fillage"
    /\ fillage' = [fillage EXCEPT ![t] = uint16(uxQueueMessagesWaiting(q_store))]
    /\ q_pc' = [q_pc EXCEPT ![t] = "put_compare"]
    /\ QueueGhostsUnchanged
    /\ UNCHANGED <<handle, q_store, ticks_to_wait, buf_size, max_full,
                   queue_size, fault, q_item, return_value, recv_item,
                   elapsed>>
    /\ UNCHANGED <<shvars, xvars>>

\* put: if (fillage > max_full); otherwise return (return_value)
QueuePutCompare(t) ==
    /\ q_pc[t] = "put_compare"
    /\ IF fillage[t] > max_full
       THEN /\ q_pc' = [q_pc EXCEPT ![t] = "put_store"]
            /\ UNCHANGED <<fillage, return_value>>
       ELSE /\ q_pc' = [q_pc EXCEPT ![t] = "idle"]
            /\ fillage' = [fillage EXCEPT ![t] = 0]
            /\ return_value' = [return_value EXCEPT ![t] = FALSE]
    /\ QueueGhostsUnchanged
    /\ UNCHANGED <<handle, q_store, ticks_to_wait, buf_size, max_full,
                   queue_size, fault, q_item, recv_item>>
    /\ ElapsedKept
    /\ UNCHANGED <<shvars, xvars>>

\* put: max_full = fillage; return (return_value)
QueuePutStore(t) ==
    /\ q_pc[t] = "put_store"
    /\ max_full' = fillage[t]
    /\ q_pc' = [q_pc EXCEPT ![t] = "idle"]
    /\ fillage' = [fillage EXCEPT ![t] = 0]
    /\ return_value' = [return_value EXCEPT ![t] = FALSE]
    /\ QueueGhostsUnchanged
    /\ UNCHANGED <<handle, q_store, ticks_to_wait, buf_size, queue_size,
                   fault, q_item, recv_item>>
    /\ ElapsedKept
    /\ UNCHANGED <<shvars, xvars>>

\* the wait a suspended task handed to the kernel
KernelWait(t) == QueueKernel(q_pc[t], q_item[t]).wait

Suspended(t) == q_pc[t] \in {"put", "butt_in", "get", "peek"}

\* The tick interrupt: one tick passes for every task inside a Queue call.
\* The kernel ends a wait at the tick on which it expires, so no tick passes
\* a task whose wait is already over.
QueueTick ==
    /\ usable /\ ~fault
    /\ \A t \in Tasks : Suspended(t) =>
          (KernelWait(t) = portMAX_DELAY \/ elapsed[t] < KernelWait(t))
    /\ \E t \in Tasks : q_pc[t] # "idle" /\ elapsed[t] <= MaxWait
    /\ elapsed' = [t \in Tasks |->
                     IF q_pc[t] # "idle" /\ elapsed[t] <= MaxWait
                     THEN elapsed[t] + 1 ELSE elapsed[t]]
    /\ QueueGhostsUnchanged
    /\ UNCHANGED <<handle, q_store, ticks_to_wait, buf_size, max_full,
                   queue_size, fault, q_pc, q_item, return_value, fillage,
                   recv_item>>
    /\ UNCHANGED <<shvars, xvars>>

\* The wait of a suspended task has expired and its call still cannot
\* complete: the kernel call returns errQUEUE_FULL / errQUEUE_EMPTY.
QueueTaskTimeout(t) ==
    /\ usable /\ ~fault
    /\ Suspended(t)
    /\ LET op == q_pc[t]
           r == QueueKernel(op, q_item[t]) IN
         /\ r.blocked
         /\ r.wait # portMAX_DELAY /\ elapsed[t] >= r.wait
         /\ QueueDone(op, r, q_item[t])
         /\ q_pc' = [q_pc EXCEPT ![t] = AfterKernel(op)]
         /\ q_item' = [q_item EXCEPT ![t] = NoVal]
         /\ return_value' = IF op = "put"
                            THEN [return_value EXCEPT ![t] = r.ret]
                            ELSE return_value
         /\ ElapsedKept
         /\ UNCHANGED <<max_full, fillage>>


\* An interrupt service routine calls one of the ISR_ methods; it runs to
\* completion between two steps of the tasks.
QueueISRCall(op, item) ==
    /\ usable /\ ~fault
    /\ op \in {"ISR_put", "ISR_butt_in", "ISR_get", "ISR_peek"}
    /\ item = NoVal <=> (IsDeq(op) \/ IsPeek(op))
    /\ LET r == QueueKernel(op, item) IN
         /\ QueueDone(op, r, item)
         /\ max_full' = IF op = "ISR_put" THEN r.mark ELSE max_full
    /\ UNCHANGED <<q_pc, q_item, return_value, fillage, elapsed>>

\* Any method called on a queue whose creation failed hands the kernel a
\* NULL handle.
QueueNullCall ==
    /\ ~usable /\ ~fault
    /\ fault' = TRUE
    /\ QueueGhostsUnchanged
    /\ UNCHANGED <<handle, q_store, ticks_to_wait, buf_size, max_full,
                   queue_size, q_pc, q_item, return_value, fillage, recv_item,
                   elapsed>>
    /\ UNCHANGED <<shvars, xvars>>

QueueNext ==
    \/ \E t \in Tasks, op \in {"put", "butt_in"}, v \in Values :
         QueueTaskCall(t, op, v)
    \/ \E t \in Tasks, op \in {"get", "peek"} : QueueTaskCall(t, op, NoVal)
    \/ \E t \in Tasks : QueueTaskResume(t)
    \/ \E t \in Tasks : QueuePutFillage(t)
    \/ \E t \in Tasks : QueuePutCompare(t)
    \/ \E t \in Tasks : QueuePutStore(t)
    \/ \E op \in {"ISR_put", "ISR_butt_in"}, v \in Values : QueueISRCall(op, v)
    \/ \E op \in {"ISR_get", "ISR_peek"} : QueueISRCall(op, NoVal)
    \/ QueueNullCall

\* ------------------------------------------------------------ Share<T>
\* The methods as functions of the kernel queue object (and, for reads,
\* of the variable the kernel copies into).

\* mutant: a plain send, which refuses to replace an unread value
Share_put_send(st, new_data) == xQueueSendToBack(st, new_data, 0)

Share_put(st, new_data) == xQueueOverwrite(st, new_data)

\* mutant: a plain send from the ISR
Share_ISR_put_send(st, new_data) == xQueueSendToBackFromISR(st, new_data)

Share_ISR_put(st, new_data) == xQueueOverwriteFromISR(st, new_data)

\* mutant: the context test inverted
Share_insert_swapped(c, st, new_data) ==
    IF ~CHECK_IF_IN_ISR(c)
    THEN xQueueOverwriteFromISR(st, new_data)
    ELSE xQueueOverwrite(st, new_data)

\* operator<<
Share_insert(c, st, new_data) ==
    IF CHECK_IF_IN_ISR(c)
    THEN xQueueOverwriteFromISR(st, new_data)
    ELSE xQueueOverwrite(st, new_data)

\* operator>> takes put_here BY VALUE: the kernel fills the parameter's
\* copy; `out` is what the caller's own variable holds afterwards.
Share_extract(c, st, put_here) ==
    LET r == IF CHECK_IF_IN_ISR(c)
             THEN xQueuePeekFromISR(st, put_here)
             ELSE xQueuePeek(st, put_here, portMAX_DELAY)
    IN  [r EXCEPT !.out = put_here]

\* mutant: a receive, which removes the value it reads
Share_get_receive(st, recv_data) == xQueueReceive(st, recv_data, portMAX_DELAY)

\* get (DataType& recv_data)
Share_get(st, recv_data) == xQueuePeek(st, recv_data, portMAX_DELAY)

\* mutant: get (void) does not wait
Share_get_val_nowait(st, return_this) == xQueuePeek(st, return_this, 0)

\* DataType get (void): return_this is an uninitialised local
Share_get_val(st, return_this) == xQueuePeek(st, return_this, portMAX_DELAY)

\* ISR_get (DataType& recv_data)
Share_ISR_get(st, recv_data) == xQueuePeekFromISR(st, recv_data)

\* DataType ISR_get (void): return_this is an uninitialised local
Share_ISR_get_val(st, return_this) == xQueuePeekFromISR(st, return_this)

NoCall == [op |-> "none", ctx |-> ISR, api |-> "none", arg |-> NoVal,
           pre |-> xQueueCreate(1), ret |-> FALSE]

\* Share<DataType> (p_name): a one-deep kernel queue, no data in it
ShareInit ==
    /\ queue = 1
    /\ sh_store = xQueueCreate(1)
    /\ sh_pc = [t \in Tasks |-> "idle"]
    /\ sh_var \in [Ctx -> Values]
    /\ sh_last = NoCall
    /\ sh_lastWrite = NoVal
    /\ sh_writer = ISR
    /\ sh_over = NoVal
    /\ sh_fresh = [c \in Ctx |-> FALSE]
    /\ sh_reads = {}

\* the Share while only the Queue is exercised
ShareQuiet ==
    /\ queue = 1
    /\ sh_store = xQueueCreate(1)
    /\ sh_pc = [t \in Tasks |-> "idle"]
    /\ sh_var = [c \in Ctx |-> 0]
    /\ sh_last = NoCall
    /\ sh_lastWrite = NoVal
    /\ sh_writer = ISR
    /\ sh_over = NoVal
    /\ sh_fresh = [c \in Ctx |-> FALSE]
    /\ sh_reads = {}

\* bookkeeping of a completed write of new_data by context c
ShareWritten(c, op, r, new_data) ==
    /\ sh_store' = r.store
    /\ sh_last' = [op |-> op, ctx |-> c, api |-> r.api, arg |-> new_data,
                   pre |-> sh_store, ret |-> r.ret]
    /\ sh_lastWrite' = new_data
    /\ sh_writer' = c
    /\ sh_over' = IF sh_store.items = <<>> THEN NoVal ELSE Head(sh_store.items)
    /\ sh_fresh' = [x \in Ctx |-> FALSE]
    /\ sh_reads' = {}
    /\ UNCHANGED <<queue, sh_var>>
    /\ UNCHANGED <<qvars, xvars>>

\* bookkeeping of a completed read by context c; isGet: one of the get forms
ShareWasRead(c, op, r, isGet) ==
    /\ sh_store' = r.store
    /\ sh_var' = [sh_var EXCEPT ![c] = r.out]
    /\ sh_last' = [op |-> op, ctx |-> c, api |-> r.api, arg |-> NoVal,
                   pre |-> sh_store, ret |-> r.ret]
    /\ sh_fresh' = [sh_fresh EXCEPT ![c] = isGet /\ sh_lastWrite # NoVal]
    /\ sh_reads' = IF isGet /\ sh_lastWrite # NoVal
                   THEN sh_reads \cup {r.out} ELSE sh_reads
    /\ UNCHANGED <<queue, sh_lastWrite, sh_writer, sh_over>>
    /\ UNCHANGED <<qvars, xvars>>

SharePut(t, new_data) ==
    /\ sh_pc[t] = "idle"
    /\ LET r == Share_put(sh_store, new_data) IN
         /\ ~r.blocked
         /\ ShareWritten(t, "put", r, new_data)
    /\ UNCHANGED sh_pc

ShareISRPut(new_data) ==
    /\ LET r == Share_ISR_put(sh_store, new_data) IN
         /\ ~r.blocked
         /\ ShareWritten(ISR, "ISR_put", r, new_data)
    /\ UNCHANGED sh_pc

ShareInsert(c, new_data) ==
    /\ c \in Tasks => sh_pc[c] = "idle"
    /\ LET r == Share_insert(c, sh_store, new_data) IN
         /\ ~r.blocked
         /\ ShareWritten(c, "<<", r, new_data)
    /\ UNCHANGED sh_pc

\* A task-context read either completes or suspends the caller in the call.
ShareReadResult(c, op, g) ==
    CASE op = ">>"          -> Share_extract(c, sh_store, sh_var[c])
      [] op = "get"         -> Share_get(sh_store, sh_var[c])
      [] op = "get_val"     -> Share_get_val(sh_store, g)
      [] op = "ISR_get"     -> Share_ISR_get(sh_store, sh_var[c])
      [] op = "ISR_get_val" -> Share_ISR_get_val(sh_store, g)

ShareTaskRead(t, op) ==
    /\ op \in {">>", "get", "get_val"}
    /\ sh_pc[t] = "idle"
    /\ \E g \in Values :
         LET r == ShareReadResult(t, op, g) IN
           IF r.blocked
           THEN /\ sh_pc' = [sh_pc EXCEPT ![t] = op]
                /\ UNCHANGED <<queue, sh_store, sh_var, sh_last, sh_lastWrite,
                               sh_writer, sh_over, sh_fresh, sh_reads>>
                /\ UNCHANGED <<qvars, xvars>>
           ELSE /\ ShareWasRead(t, op, r, op # ">>")
                /\ UNCHANGED sh_pc

\* the suspended reader is made ready once the queue holds data
ShareTaskResume(t) ==
    /\ sh_pc[t] # "idle"
    /\ \E g \in Values :
         LET r == ShareReadResult(t, sh_pc[t], g) IN
           /\ ~r.blocked
           /\ ShareWasRead(t, sh_pc[t], r, sh_pc[t] # ">>")
    /\ sh_pc' = [sh_pc EXCEPT ![t] = "idle"]

ShareISRRead(op) ==
    /\ op \in {">>", "ISR_get", "ISR_get_val"}
    /\ \E g \in Values :
         LET r == ShareReadResult(ISR, op, g) IN
           ShareWasRead(ISR, op, r, op # ">>")
    /\ UNCHANGED sh_pc

ShareNext ==
    \/ \E t \in Tasks, v \in Values : SharePut(t, v)
    \/ \E v \in Values : ShareISRPut(v)
    \/ \E c \in Ctx, v \in Values : ShareInsert(c, v)
    \/ \E t \in Tasks, op \in {">>", "get", "get_val"} : ShareTaskRead(t, op)
    \/ \E t \in Tasks : ShareTaskResume(t)
    \/ \E op \in {">>", "ISR_get", "ISR_get_val"} : ShareISRRead(op)

\* the Share exercised by two tasks and an ISR
InitShare == ShareInit /\ QueueQuiet /\ XQuiet

SpecShare == InitShare /\ [][ShareNext]_vars

\* The kernel readies a suspended reader once the Share holds data, and a
\* Share that holds data never loses it, so the reader gets to run.
SpecShareFair ==
    /\ InitShare
    /\ [][ShareNext]_vars
    /\ \A t \in Tasks : WF_vars(ShareTaskResume(t))

\* the Queue exercised by two tasks and an ISR
InitQueue == QueueInit /\ ShareQuiet /\ XQuiet

SpecQueue == InitQueue /\ [][QueueNext]_vars

\* A queue created with a capacity beyond the range of uint16_t (BaseType_t
\* is a 32-bit type on the library's targets), never blocking (wait_time 0)
\* and filled with at most MaxFill items.
WideSizes == {65536 + k : k \in 1..MaxQueueSize}

InitWide ==
    /\ \E size \in WideSizes : QueueCreated(size, 0, TRUE)
    /\ recv_item = NoVal
    /\ ShareQuiet
    /\ XQuiet

\* put on the wide queue while it holds fewer than MaxFill items
WidePut(t, v) ==
    /\ uxQueueMessagesWaiting(q_store) < MaxFill
    /\ QueueTaskCall(t, "put", v)

\* ISR_put on the wide queue while it holds fewer than MaxFill items
WideISRPut(v) ==
    /\ uxQueueMessagesWaiting(q_store) < MaxFill
    /\ QueueISRCall("ISR_put", v)

WideNext ==
    \/ \E t \in Tasks, v \in Values : WidePut(t, v)
    \/ \E t \in Tasks : QueuePutFillage(t)
    \/ \E t \in Tasks : QueuePutCompare(t)
    \/ \E t \in Tasks : QueuePutStore(t)
    \/ \E v \in Values : WideISRPut(v)
    \/ QueueISRCall("ISR_get", NoVal)

SpecWide == InitWide /\ [][WideNext]_vars

\* A queue of one element constructed with a finite wait time, with the
\* kernel's tick running.
InitTimed ==
    /\ \E wait_time \in 1..MaxWait : QueueCreated(1, wait_time, TRUE)
    /\ recv_item = NoVal
    /\ ShareQuiet
    /\ XQuiet

TimedNext ==
    \/ \E t \in Tasks, op \in {"put", "butt_in"}, v \in Values :
         QueueTaskCall(t, op, v)
    \/ \E t \in Tasks, op \in {"get", "peek"} : QueueTaskCall(t, op, NoVal)
    \/ \E t \in Tasks : QueueTaskResume(t)
    \/ \E t \in Tasks : QueueTaskTimeout(t)
    \/ \E t \in Tasks : QueuePutFillage(t)
    \/ \E t \in Tasks : QueuePutCompare(t)
    \/ \E t \in Tasks : QueuePutStore(t)
    \/ \E op \in {"ISR_put", "ISR_butt_in"}, v \in Values : QueueISRCall(op, v)
    \/ \E op \in {"ISR_get", "ISR_peek"} : QueueISRCall(op, NoVal)
    \/ QueueTick

SpecTimed == InitTimed /\ [][TimedNext]_vars

\* One consumer, the task created as "Receive", calling get with the default
\* wait time on a queue fed by the other task's put and by ISR_put.
Consumer == "t2"

InitConsumer ==
    /\ \E size \in 1..MaxQueueSize : QueueCreated(size, portMAX_DELAY, TRUE)
    /\ recv_item = NoVal
    /\ ShareQuiet
    /\ XQuiet

ConsumerNext ==
    \/ QueueTaskCall(Consumer, "get", NoVal)
    \/ \E t \in Tasks \ {Consumer}, v \in Values : QueueTaskCall(t, "put", v)
    \/ \E t \in Tasks : QueueTaskResume(t)
    \/ \E t \in Tasks : QueuePutFillage(t)
    \/ \E t \in Tasks : QueuePutCompare(t)
    \/ \E t \in Tasks : QueuePutStore(t)
    \/ \E v \in Values : QueueISRCall("ISR_put", v)

\* The kernel readies the consumer when an item arrives; the consumer has
\* the highest priority, so it then runs.
SpecConsumer ==
    InitConsumer /\ [][ConsumerNext]_vars /\ WF_vars(QueueTaskResume(Consumer))

\* Several consumers: both tasks call get and the ISR calls ISR_get on a
\* queue that an ISR fills from either end.
InitConsumers ==
    /\ \E size \in 1..MaxQueueSize, wait_time \in {0, portMAX_DELAY} :
          QueueCreated(size, wait_time, TRUE)
    /\ recv_item = NoVal
    /\ ShareQuiet
    /\ XQuiet

ConsumersNext ==
    \/ \E t \in Tasks : QueueTaskCall(t, "get", NoVal)
    \/ \E t \in Tasks : QueueTaskResume(t)
    \/ QueueISRCall("ISR_get", NoVal)
    \/ \E op \in {"ISR_put", "ISR_butt_in"}, v \in Values : QueueISRCall(op, v)

SpecConsumers == InitConsumers /\ [][ConsumersNext]_vars

\* ------------------------------------------------------------ the demo
\* main.cpp and task_receive.cpp: task Send puts a number whose two halves
\* are equal into the share and into the queue; task Receive gets from the
\* queue and then reads the share.
Sender == "t1"
Receiver == "t2"

\* number = random (0xFFFF); number |= number << 16;
Redundant(number) == number + number * 65536

\* (data >> 16) != (data & 0xFFFF) counts as an error
HalvesEqual(data) == (data \div 65536) = (data % 65536)

InitDemo ==
    /\ QueueCreated(MaxQueueSize, portMAX_DELAY, TRUE)
    /\ recv_item = NoVal
    /\ ShareInit
    /\ XQuiet

\* test_share_0.put (number)
DemoSharePut(number) ==
    /\ q_pc[Sender] = "idle"
    /\ SharePut(Sender, Redundant(number))

\* test_queue_0.put (number)
DemoQueuePut(number) ==
    /\ sh_pc[Sender] = "idle"
    /\ QueueTaskCall(Sender, "put", Redundant(number))

\* test_queue_0 >> queue_data, that is get (queue_data)
DemoQueueGet ==
    /\ sh_pc[Receiver] = "idle"
    /\ QueueTaskCall(Receiver, "get", NoVal)

\* test_share_0 >> share_data, or the same read made with get (share_data)
DemoShareRead(op) ==
    /\ q_pc[Receiver] = "idle"
    /\ op \in {">>", "get"}
    /\ ShareTaskRead(Receiver, op)

DemoNext ==
    \/ \E number \in Values : DemoSharePut(number)
    \/ \E number \in Values : DemoQueuePut(number)
    \/ DemoQueueGet
    \/ \E op \in {">>", "get"} : DemoShareRead(op)
    \/ \E t \in Tasks : QueueTaskResume(t)
    \/ QueuePutFillage(Sender)
    \/ QueuePutCompare(Sender)
    \/ QueuePutStore(Sender)
    \/ ShareTaskResume(Receiver)

SpecDemo == InitDemo /\ [][DemoNext]_vars

\* the Mutex used by two tasks
InitMutex ==
    /\ MutexInit /\ QueueQuiet /\ ShareQuiet /\ NameQuiet /\ RegistryQuiet
    /\ YQuiet

SpecMutex == InitMutex /\ [][MutexNext]_vars

\* ------------------------------------------------------- BaseShare: name
Letters ==
    <<"a", "b", "c", "d", "e", "f", "g", "h", "i", "j",
      "k", "l", "m", "n", "o", "p", "q", "r", "s", "t">>

\* the string of n characters a, b, c, ...
NameOfLength(n) == [i \in 1..n |-> Letters[((i - 1) % Len(Letters)) + 1]]

Str(chars) == [null |-> FALSE, str |-> chars]

\* the names handed to the constructor: NULL, or a string of 0..MaxName
\* characters
Names == {NullName} \cup {Str(NameOfLength(n)) : n \in 0..MaxName}

\* a buffer of X's with a NUL at place k, none when k = 0
Garbage(k) == [i \in 1..NameSize |-> IF i = k THEN NUL ELSE "X"]

\* what the 16 bytes of name can hold before the constructor runs: zeroes
\* for an object in static storage, anything for one on the stack or heap
Priors == {ZeroBuf} \cup {Garbage(k) : k \in 0..NameSize}

uint8(n) == n % 256

strlen(str) == Len(str)

\* strncpy(dest, src, n): exactly n characters are written, NULs after the
\* end of src; no terminator is added when src has n characters or more
strncpy(dest, src, n) ==
    [i \in 1..Len(dest) |->
        IF i <= n THEN (IF i <= Len(src) THEN src[i] ELSE NUL)
        ELSE dest[i]]

\* strcpy(dest, src): the characters of src and its terminator
strcpy(dest, src) ==
    [i \in 1..Len(dest) |->
        IF i <= Len(src) THEN src[i]
        ELSE IF i = Len(src) + 1 THEN NUL ELSE dest[i]]

NoName == <<"(", "N", "o", SPACE, "N", "a", "m", "e", ")">>

\* uint8_t namelength = strlen (p_name);
\* namelength = (namelength <= 15) ? namelength : 15;
namelength(str) ==
    LET len == uint8(strlen(str))
    IN  IF len <= 15 THEN len ELSE 15

\* BaseShare::BaseShare, the name: at most 15 characters of p_name are
\* copied into name, "(No Name)" when p_name is NULL
BaseShare_name(p_name, name) ==
    IF ~p_name.null
    THEN strncpy(name, p_name.str, namelength(p_name.str))
    ELSE strcpy(name, NoName)

\* the place of the first NUL of a buffer, 0 when it holds none
FirstNul(buf) ==
    IF \E i \in 1..Len(buf) : buf[i] = NUL
    THEN CHOOSE i \in 1..Len(buf) :
            buf[i] = NUL /\ \A j \in 1..(i - 1) : buf[j] # NUL
    ELSE 0

\* what lies behind a buffer in memory, up to the next NUL: nothing, or
\* some bytes
Beyond == {<<>>, <<"?">>}

\* A buffer read as a NUL-terminated string: the characters before the
\* first NUL; a buffer without NUL is read past its end.
CString(buf, beyond) ==
    IF FirstNul(buf) = 0 THEN buf \o beyond
    ELSE SubSeq(buf, 1, FirstNul(buf) - 1)

NameInit ==
    /\ nm_arg \in Names
    /\ nm_buf \in Priors
    /\ nm_str = NoStr
    /\ nm_done = FALSE

\* The constructor runs, and the name is read as a string.
NameConstruct ==
    /\ ~nm_done
    /\ nm_buf' = BaseShare_name(nm_arg, nm_buf)
    /\ \E beyond \in Beyond : nm_str' = CString(nm_buf', beyond)
    /\ nm_done' = TRUE
    /\ UNCHANGED nm_arg
    /\ UNCHANGED <<qvars, shvars, mxvars, rgvars, sqvars, rg_ctor>>

NameNext == NameConstruct

InitName ==
    /\ NameInit /\ QueueQuiet /\ ShareQuiet /\ MutexQuiet /\ RegistryQuiet
    /\ YQuiet

SpecName == InitName /\ [][NameNext]_vars

\* names of 256 characters and more beside the short ones
LongNames ==
    {Str(NameOfLength(L)) : L \in (0..MaxName) \cup (256..(256 + MaxName))}

LongNameInit ==
    /\ nm_arg \in LongNames
    /\ nm_buf \in Priors
    /\ nm_str = NoStr
    /\ nm_done = FALSE

InitLongName ==
    /\ LongNameInit /\ QueueQuiet /\ ShareQuiet /\ MutexQuiet /\ RegistryQuiet
    /\ YQuiet

SpecLongName == InitLongName /\ [][NameNext]_vars

\* ------------------------------------------------ BaseShare: the list
\* BaseShare::BaseShare, the list: the new entry points at the entry that
\* was newest, and becomes the newest
\* mutant: the new entry forgets the entry that was newest
BaseShare_link_alone(newest, this) ==
    [p_next |-> NULL, p_newest |-> this]

BaseShare_link(newest, this) ==
    [p_next |-> newest, p_newest |-> this]

\* the names given to the entries of the list; the entries are objects in
\* static storage, whose name buffer starts zeroed
RegNames == {NullName, Str(<<"Q">>)}

\* the sizes asked of the queues of the list
RegSizes == {MaxQueueSize, 65536 + 1}

\* Share<T> (p_name): a BaseShare that is a share
Share_entry(p_name, newest, this) ==
    [kind |-> "share",
     name |-> BaseShare_name(p_name, ZeroBuf),
     p_next |-> BaseShare_link(newest, this).p_next,
     handle |-> 1, buf_size |-> 1, max_full |-> 0,
     arg |-> p_name, size |-> 1]

\* mutant: a queue does not join the list
Queue_entry_unlinked(p_name, size, alloc_ok, newest, this) ==
    LET q == Queue_ctor(size, portMAX_DELAY, alloc_ok) IN
    [kind |-> "queue",
     name |-> BaseShare_name(p_name, ZeroBuf),
     p_next |-> NULL,
     handle |-> q.handle, buf_size |-> q.buf_size, max_full |-> q.max_full,
     arg |-> p_name, size |-> size]

\* Queue<T> (queue_size, p_name, wait_time): a BaseShare that is a queue
Queue_entry(p_name, size, alloc_ok, newest, this) ==
    LET q == Queue_ctor(size, portMAX_DELAY, alloc_ok) IN
    [kind |-> "queue",
     name |-> BaseShare_name(p_name, ZeroBuf),
     p_next |-> BaseShare_link(newest, this).p_next,
     handle |-> q.handle, buf_size |-> q.buf_size, max_full |-> q.max_full,
     arg |-> p_name, size |-> size]

Digits == <<"0", "1", "2", "3", "4", "5", "6", "7", "8", "9">>

\* Print's insertion of an unsigned number: its decimal digits
RECURSIVE Dec(_)
Dec(n) ==
    IF n < 10 THEN <<Digits[n + 1]>>
    ELSE Dec(n \div 10) \o <<Digits[(n % 10) + 1]>>

\* printf ("%-16s", str): str, then spaces up to 16 columns
Pad16(str) ==
    str \o [i \in 1..(IF Len(str) < 16 THEN 16 - Len(str) ELSE 0) |-> SPACE]

UNUSABLE == <<"U", "N", "U", "S", "A", "B", "L", "E">>

\* Queue<T>::print_in_list, the line it prints for entry e
Queue_print_in_list(e) ==
    Pad16(CString(e.name, <<>>)) \o <<"q", "u", "e", "u", "e", "\t">>
    \o (IF e.handle # NULL
        THEN Dec(e.max_full) \o <<"/">> \o Dec(e.buf_size)
        ELSE UNUSABLE)

\* Share<T>::print_in_list, the line it prints for entry e
Share_print_in_list(e) ==
    Pad16(CString(e.name, <<>>)) \o <<"s", "h", "a", "r", "e", "\t">>

print_in_list(e) ==
    IF e.kind = "queue" THEN Queue_print_in_list(e)
    ELSE Share_print_in_list(e)

\* the entries whose print_in_list runs when that of entry p is called:
\* p, then the walk from its p_next unless that is NULL
RECURSIVE Walk(_, _)
Walk(es, p) ==
    <<p>> \o (IF es[p].p_next # NULL THEN Walk(es, es[p].p_next) ELSE <<>>)

Header1 ==
    <<"S", "h", "a", "r", "e", "/", "Q", "u", "e", "u", "e", SPACE, SPACE,
      SPACE, SPACE, SPACE, "T", "y", "p", "e", SPACE, SPACE, SPACE, SPACE,
      "M", "a", "x", ".", SPACE, "F", "u", "l", "l">>

Header2 ==
    <<"-", "-", "-", "-", "-", "-", "-", "-", "-", "-", "-", SPACE, SPACE,
      SPACE, SPACE, SPACE, "-", "-", "-", "-", SPACE, SPACE, SPACE, SPACE,
      "-", "-", "-", "-", "-", "-", "-", "-", "-">>

\* what a call through the NULL pointer may print before it ends
Stray == {<<>>, <<<<"?">>>>}

RegistryInit == RegistryQuiet

\* the list after an entry has been constructed
Registered(e) ==
    /\ Len(entries) < MaxEntries
    /\ entries' = Append(entries, e)
    /\ p_newest' = BaseShare_link(p_newest, Len(entries) + 1).p_newest
    /\ UNCHANGED <<rg_out, rg_visited, rg_state>>
    /\ UNCHANGED <<qvars, shvars, mxvars, nmvars, sqvars, rg_ctor>>

\* A share is constructed.
RegShare(p_name) ==
    /\ rg_state = "idle"
    /\ Registered(Share_entry(p_name, p_newest, Len(entries) + 1))

\* A queue is constructed.
RegQueue(p_name, size, alloc_ok) ==
    /\ rg_state = "idle"
    /\ Registered(Queue_entry(p_name, size, alloc_ok, p_newest,
                              Len(entries) + 1))

\* BaseShare::print_all_shares on a list that has entries
PrintAllShares ==
    /\ rg_state = "idle"
    /\ p_newest # NULL
    /\ rg_visited' = Walk(entries, p_newest)
    /\ rg_out' = <<Header1, Header2>>
                 \o [k \in 1..Len(rg_visited') |->
                        print_in_list(entries[rg_visited'[k]])]
    /\ rg_state' = "printed"
    /\ UNCHANGED <<p_newest, entries>>
    /\ UNCHANGED <<qvars, shvars, mxvars, nmvars, sqvars, rg_ctor>>

\* BaseShare::print_all_shares before any entry exists: print_in_list is
\* called through p_newest, which is NULL.  The call is undefined: the
\* program stops with a fault, or runs on from whatever address it loaded.
PrintNoShares ==
    /\ rg_state = "idle"
    /\ p_newest = NULL
    /\ \E crash \in BOOLEAN, stray \in Stray :
          /\ rg_state' = IF crash THEN "fault" ELSE "printed"
          /\ rg_out' = <<Header1, Header2>> \o stray
    /\ UNCHANGED <<p_newest, entries, rg_visited>>
    /\ UNCHANGED <<qvars, shvars, mxvars, nmvars, sqvars, rg_ctor>>

RegistryNext ==
    \/ \E p_name \in RegNames : RegShare(p_name)
    \/ \E p_name \in RegNames, size \in RegSizes, alloc_ok \in BOOLEAN :
          RegQueue(p_name, size, alloc_ok)
    \/ PrintAllShares
    \/ PrintNoShares

InitRegistry ==
    /\ RegistryInit /\ QueueQuiet /\ ShareQuiet /\ MutexQuiet /\ NameQuiet
    /\ YQuiet

SpecRegistry == InitRegistry /\ [][RegistryNext]_vars

\* the entries met from p by following p_next, at most fuel of them
RECURSIVE Chain(_, _, _)
Chain(es, p, fuel) ==
    IF p = NULL \/ fuel = 0 THEN <<>>
    ELSE <<p>> \o Chain(es, es[p].p_next, fuel - 1)

\* the list as print_all_shares would walk it
ChainNow == Chain(entries, p_newest, Len(entries) + 1)

Range(seq) == {seq[i] : i \in 1..Len(seq)}

\* ------------------------- BaseShare: constructors that can be preempted
\* The constructor in two steps, as when the entries are constructed by
\* tasks: `p_next = p_newest` and, later, `p_newest = this`.

\* p_next = p_newest: the entry exists and points at the newest it saw
Constructing(t, e) ==
    /\ rg_state = "idle"
    /\ rg_ctor[t] = NULL
    /\ Len(entries) < MaxEntries
    /\ entries' = Append(entries, e)
    /\ rg_ctor' = [rg_ctor EXCEPT ![t] = Len(entries) + 1]
    /\ UNCHANGED <<p_newest, rg_out, rg_visited, rg_state>>
    /\ UNCHANGED <<qvars, shvars, mxvars, nmvars, sqvars>>

CtorShare(t, p_name) ==
    /\ rg_ctor[t] = NULL
    /\ Constructing(t, Share_entry(p_name, p_newest, Len(entries) + 1))

CtorQueue(t, p_name, alloc_ok) ==
    /\ rg_ctor[t] = NULL
    /\ Constructing(t, Queue_entry(p_name, MaxQueueSize, alloc_ok, p_newest,
                                   Len(entries) + 1))

\* mutant: the entry takes the newest entry of now as its p_next
CtorPublish_again(t) ==
    /\ rg_state = "idle"
    /\ rg_ctor[t] # NULL
    /\ entries' = [entries EXCEPT ![rg_ctor[t]].p_next = p_newest]
    /\ p_newest' = BaseShare_link(p_newest, rg_ctor[t]).p_newest
    /\ rg_ctor' = [rg_ctor EXCEPT ![t] = NULL]
    /\ UNCHANGED <<rg_out, rg_visited, rg_state>>
    /\ UNCHANGED <<qvars, shvars, mxvars, nmvars, sqvars>>

\* p_newest = this
CtorPublish(t) ==
    /\ rg_state = "idle"
    /\ rg_ctor[t] # NULL
    /\ p_newest' = BaseShare_link(p_newest, rg_ctor[t]).p_newest
    /\ rg_ctor' = [rg_ctor EXCEPT ![t] = NULL]
    /\ UNCHANGED <<entries, rg_out, rg_visited, rg_state>>
    /\ UNCHANGED <<qvars, shvars, mxvars, nmvars, sqvars>>

\* print_all_shares, called once no constructor is running
CtorPrint ==
    /\ \A t \in Tasks : rg_ctor[t] = NULL
    /\ PrintAllShares

CtorNext ==
    \/ \E t \in Tasks, p_name \in RegNames : CtorShare(t, p_name)
    \/ \E t \in Tasks, p_name \in RegNames, alloc_ok \in BOOLEAN :
          CtorQueue(t, p_name, alloc_ok)
    \/ \E t \in Tasks : CtorPublish(t)
    \/ CtorPrint

InitCtor ==
    /\ RegistryInit /\ CtorQuiet /\ QueueQuiet /\ ShareQuiet /\ MutexQuiet
    /\ NameQuiet /\ SerialQuiet

SpecCtor == InitCtor /\ [][CtorNext]_vars

\* ------------------------------------- Queue<T> used without preemption
\* Every method runs from its call to its return with nothing in between;
\* the queue is constructed with wait time 0, so no call suspends.

\* put, whole: the kernel call, then fillage = uxQueueMessagesWaiting
\* (handle) and `if (fillage > max_full) max_full = fillage`, whatever the
\* kernel call returned
Queue_put_mark(st, item, ticks, mark) ==
    LET r == Queue_put(st, item, ticks)
        fill == uint16(uxQueueMessagesWaiting(r.store))
    IN  [store |-> r.store, ret |-> r.ret, blocked |-> r.blocked,
         mark |-> IF fill > mark THEN fill ELSE mark]

\* TextQueue::write (a_char): put (a_char); return 1
TextQueue_write(st, a_char, ticks, mark) ==
    LET r == Queue_put_mark(st, a_char, ticks, mark)
    IN  [store |-> r.store, ret |-> r.ret, blocked |-> r.blocked,
         mark |-> r.mark, n |-> 1]

SerialOps ==
    {"put", "butt_in", "ISR_put", "ISR_butt_in", "get", "peek", "ISR_get",
     "ISR_peek"}

\* the call of method op, as the store and the mark it leaves
SerialKernel(op, item) ==
    CASE op = "put"         -> Queue_put_mark(sq_store, item, 0, sq_max_full)
      [] op = "butt_in"     -> Queue_butt_in(sq_store, item, 0)
      [] op = "get"         -> Queue_get(sq_store, NoVal, 0)
      [] op = "peek"        -> Queue_peek(sq_store, NoVal, 0)
      [] op = "ISR_put"     -> Queue_ISR_put(sq_store, item, sq_max_full)
      [] op = "ISR_butt_in" -> Queue_ISR_butt_in(sq_store, item)
      [] op = "ISR_get"     -> Queue_ISR_get(sq_store, NoVal)
      [] op = "ISR_peek"    -> Queue_ISR_peek(sq_store, NoVal)

Max(a, b) == IF a >= b THEN a ELSE b

SerialInit ==
    /\ \E size \in 1..MaxQueueSize :
          LET q == Queue_ctor(size, 0, TRUE) IN
          /\ sq_store = q.store
          /\ sq_max_full = q.max_full
    /\ sq_peak = 0
    /\ sq_last = NoSerialCall

\* One method of the queue is called and returns.
SerialCall(op, item) ==
    /\ op \in SerialOps
    /\ item = NoVal <=> (IsDeq(op) \/ IsPeek(op))
    /\ LET r == SerialKernel(op, item) IN
         /\ ~r.blocked
         /\ sq_store' = r.store
         /\ sq_max_full' = IF op \in {"put", "ISR_put"} THEN r.mark
                           ELSE sq_max_full
         /\ sq_peak' = Max(sq_peak, uxQueueMessagesWaiting(r.store))
         /\ sq_last' = [op |-> op, ret |-> r.ret, n |-> 0, item |-> item]
    /\ UNCHANGED <<qvars, shvars, mxvars, nmvars, rgvars, rg_ctor>>

\* A character is printed into the queue: Print calls write.
SerialWrite(a_char) ==
    /\ LET r == TextQueue_write(sq_store, a_char, 0, sq_max_full) IN
         /\ ~r.blocked
         /\ sq_store' = r.store
         /\ sq_max_full' = r.mark
         /\ sq_peak' = Max(sq_peak, uxQueueMessagesWaiting(r.store))
         /\ sq_last' = [op |-> "write", ret |-> r.ret, n |-> r.n,
                        item |-> a_char]
    /\ UNCHANGED <<qvars, shvars, mxvars, nmvars, rgvars, rg_ctor>>

SerialNext ==
    \/ \E op \in {"put", "butt_in", "ISR_put", "ISR_butt_in"}, v \in Values :
         SerialCall(op, v)
    \/ \E op \in {"get", "peek", "ISR_get", "ISR_peek"} :
         SerialCall(op, NoVal)
    \/ \E v \in Values : SerialWrite(v)

InitSerial ==
    /\ SerialInit /\ QueueQuiet /\ ShareQuiet /\ MutexQuiet /\ NameQuiet
    /\ RegistryQuiet /\ CtorQuiet

SpecSerial == InitSerial /\ [][SerialNext]_vars

\* ------------------------------------------------- properties of Share<T>

IsGet(op) == op \in {"get", "get_val", "ISR_get", "ISR_get_val"}

\* C4: last-write-wins.  A context whose get completed after the latest
\* write (task put, ISR_put or <<) holds the value of that write.
C4_LastWriteWins ==
    \A c \in Ctx : sh_fresh[c] => sh_var[c] = sh_lastWrite

\* an ISR write replaced a different, task-written value and a task's get
\* that followed read the ISR's value
C4_Witness ==
    /\ sh_fresh["t1"]
    /\ sh_writer = ISR
    /\ sh_over \notin {NoVal, sh_lastWrite}
    /\ sh_var["t1"] = sh_lastWrite

\* C5: reads are non-destructive.  On a written Share all gets (by
\* reference, by value, task or ISR) since the latest write handed out one
\* and the same value, and the slot still holds it.
C5_NonDestructive ==
    sh_lastWrite # NoVal =>
        /\ Cardinality(sh_reads) <= 1
        /\ \A v \in sh_reads : sh_store.items = <<v>>

\* two different readers have read since the latest write
C5_Witness ==
    /\ sh_fresh["t1"] /\ sh_fresh[ISR]
    /\ IsGet(sh_last.op)
    /\ sh_reads = {sh_lastWrite}

\* C6: put and ISR_put never block and never fail.  From every reachable
\* slot state the write of any value succeeds without suspending and leaves
\* exactly one value; the slot never holds more than one.
C6_WriteTotal ==
    /\ Len(sh_store.items) <= 1
    /\ \A v \in Values :
         /\ LET r == Share_put(sh_store, v)
            IN ~r.blocked /\ r.ret /\ r.store.items = <<v>>
         /\ LET r == Share_ISR_put(sh_store, v)
            IN ~r.blocked /\ r.ret /\ r.store.items = <<v>>
    /\ sh_last.op \in {"put", "ISR_put"} =>
         sh_last.ret /\ sh_store.items = <<sh_last.arg>>

\* an ISR_put onto a slot holding a value no reader has read
C6_Witness ==
    /\ sh_last.op = "ISR_put"
    /\ sh_last.pre.items # <<>>
    /\ sh_over # NoVal
    /\ sh_store.items = <<sh_last.arg>>

\* C7 (as claimed): after `share >> x` returned in task context on a
\* written Share, the caller's x equals the latest written value.
C7_ExtractLikeGet ==
    (sh_last.op = ">>" /\ sh_last.ctx \in Tasks /\ sh_lastWrite # NoVal)
        => sh_var[sh_last.ctx] = sh_lastWrite

\* C8: `share << v` is put(v) in task context and ISR_put(v) in an ISR:
\* same resulting kernel queue, through the same kernel entry point (the
\* FromISR one in an ISR).
C8_InsertLikePut ==
    sh_last.op = "<<" =>
        LET want == IF sh_last.ctx = ISR
                    THEN Share_ISR_put(sh_last.pre, sh_last.arg)
                    ELSE Share_put(sh_last.pre, sh_last.arg)
        IN  /\ sh_store = want.store
            /\ sh_last.api = want.api
            /\ sh_last.ret = want.ret
            /\ sh_last.ctx = ISR => sh_last.api = "xQueueOverwriteFromISR"

\* an insertion made from the ISR over an existing value
C8_Witness ==
    /\ sh_last.op = "<<"
    /\ sh_last.ctx = ISR
    /\ sh_last.pre.items # <<>>

\* ------------------------------------------------- properties of Queue<T>

\* a get or ISR_get delivers an item in this step
Dequeued == balance' = balance - 1

\* C1: FIFO order.  While no butt_in / ISR_butt_in has been used, every item
\* a get delivers is the oldest item put and not yet got, and the queue
\* holds exactly the items put and not yet got.
C1_Fifo ==
    [][ /\ (Dequeued /\ ~usedFront) =>
              (q_exp # <<>> /\ recv_item' = Head(q_exp))
        /\ (usable /\ ~usedFront') =>
              uxQueueMessagesWaiting(q_store') = Len(q_exp') ]_vars

\* a get has returned the first of several puts, and the item now due is a
\* different one
C1_Witness ==
    /\ ~usedFront
    /\ q_last = [op |-> "get", ret |-> TRUE]
    /\ q_exp # <<>>
    /\ recv_item \in Values
    /\ recv_item # Head(q_exp)

\* C2: push-front priority.  After a successful butt_in(x) / ISR_butt_in(x)
\* on contents q1..qk, the dequeues that follow deliver x, q1, ..., qk in
\* this order (until another butt_in succeeds).
C2_FrontFirst ==
    [][ (Dequeued /\ b_snap # <<>>) => recv_item' = Head(b_snap) ]_vars

\* x and the k >= 1 items found by a butt_in have all been dequeued
C2_Witness ==
    /\ usedFront
    /\ b_k >= 1
    /\ b_snap = <<>>
    /\ q_last = [op |-> "get", ret |-> TRUE]

\* C3 (as claimed): after butt_in(a), butt_in(b) with no dequeue between,
\* the gets return a before b: the first item dequeued is not b.
C3_FrontOrderKept ==
    [][ (Dequeued /\ pair # <<>> /\ pair_n = 0 /\ pair[1] # pair[2])
            => recv_item' # pair[2] ]_vars

\* C3 (amended): after butt_in(a), butt_in(b) with no dequeue between, the
\* next two dequeues deliver b and then a.
C3_FrontOrderReversed ==
    [][ (Dequeued /\ pair # <<>>)
            => recv_item' = (IF pair_n = 0 THEN pair[2] ELSE pair[1]) ]_vars

\* two different items were pushed to the front and a get returned the
\* later one
C3_Witness ==
    /\ pair # <<>>
    /\ pair[1] # pair[2]
    /\ pair_n = 1
    /\ recv_item = pair[2]
    /\ q_last = [op |-> "get", ret |-> TRUE]

\* C9: occupancy accounting.  available() (and ISR_available()) equals the
\* number of successful enqueues minus the number of delivered dequeues; a
\* peek, which is counted in neither, leaves it alone.
C9_Occupancy ==
    usable => /\ available = balance
              /\ ISR_available = balance

\* two enqueues and one get: one item left
C9_Witness ==
    /\ usable
    /\ q_last = [op |-> "get", ret |-> TRUE]
    /\ balance = 1
    /\ available = 1

\* C10: the occupancy of a usable queue lies between 0 and the capacity the
\* queue was created with.
C10_Bounded ==
    usable => /\ uxQueueMessagesWaiting(q_store) >= 0
              /\ uxQueueMessagesWaiting(q_store) <= queue_size

\* the queue is full and has just refused an ISR_put
C10_Witness ==
    /\ usable
    /\ uxQueueMessagesWaiting(q_store) = queue_size
    /\ q_last = [op |-> "ISR_put", ret |-> FALSE]


\* C11: the high-water mark never decreases, also when an ISR_put (or the
\* put of another task) runs between the comparison and the store of a put.
C11_MarkMonotone ==
    [][ max_full' >= max_full ]_vars


\* C12: the high-water mark never exceeds the capacity: max_full <= buf_size
\* in every reachable state, and buf_size is the capacity the constructor
\* was given, whatever BaseType_t value that is.
C12_MarkWithinCapacity ==
    /\ max_full <= buf_size
    /\ buf_size = queue_size


\* the kernel queue holds as many items as it was created for
QueueFull == uxQueueMessagesWaiting(q_store) = q_store.uxLength

\* C13: put on a full queue constructed with wait time 0 returns false
\* without suspending the caller and leaves the queue's occupancy and items
\* as they were; the false it got from the kernel is what it returns.
C13_PutFullNoWait ==
    [][ \A t \in Tasks :
          /\ ( /\ q_pc[t] = "idle"
               /\ q_pc'[t] \in {"put", "put_fillage"}
               /\ ticks_to_wait = 0
               /\ QueueFull )
             => ( /\ q_pc'[t] = "put_fillage"
                  /\ return_value'[t] = FALSE
                  /\ q_last' = [op |-> "put", ret |-> FALSE]
                  /\ q_store' = q_store )
          /\ ( /\ q_pc[t] \in {"put_fillage", "put_compare", "put_store"}
               /\ q_pc'[t] # "idle" )
             => return_value'[t] = return_value[t] ]_vars

\* a put has just been refused by the full queue of a no-wait Queue and is
\* on its way to returning false
C13_Witness ==
    /\ ticks_to_wait = 0
    /\ QueueFull
    /\ q_last = [op |-> "put", ret |-> FALSE]
    /\ \E t \in Tasks : q_pc[t] = "put_fillage" /\ return_value[t] = FALSE


\* C14: get and peek on an empty queue constructed with wait time 0 return
\* without suspending the caller: no task is ever suspended in a read, and
\* a read that found nothing leaves the caller's variable and the (empty)
\* queue as they were.
C14_ReadEmptyNoWait ==
    [][ ticks_to_wait = 0 =>
          /\ \A t \in Tasks : q_pc'[t] \notin {"get", "peek"}
          /\ (q_last'.op \in {"get", "peek"} /\ ~q_last'.ret) =>
                /\ recv_item' = recv_item
                /\ q_store' = q_store
                /\ q_store'.items = <<>> ]_vars

\* the caller's variable held an item from an earlier read when a get found
\* the no-wait queue empty
C14_Witness ==
    /\ ticks_to_wait = 0
    /\ q_last = [op |-> "get", ret |-> FALSE]
    /\ recv_item \in Values
    /\ is_empty
    /\ \A t \in Tasks : q_pc[t] = "idle"


\* a read method's kernel call has ended without delivering an item
ReadFailed ==
    /\ q_last'.op \in {"get", "peek", "ISR_get", "ISR_peek"}
    /\ ~q_last'.ret

SendFailed ==
    /\ q_last'.op \in {"put", "butt_in"}
    /\ ~q_last'.ret

\* C16: a put or butt_in that returns false has dropped its item: the
\* queue's items and the count available() reports are those from before
\* the call, and the method keeps no copy to send later.
C16_FailedSendDropsItem ==
    [][ /\ SendFailed =>
              /\ q_store' = q_store
              /\ balance' = balance
              /\ uxQueueMessagesWaiting(q_store') = balance'
        /\ \A t \in Tasks :
              q_pc'[t] \notin {"put", "butt_in"} => q_item'[t] = NoVal ]_vars

\* a put has waited out its finite wait time on the full queue and is
\* returning false
C16_Witness ==
    /\ ticks_to_wait > 0
    /\ QueueFull
    /\ q_last = [op |-> "put", ret |-> FALSE]
    /\ \E t \in Tasks : /\ q_pc[t] = "put_fillage"
                        /\ return_value[t] = FALSE
                        /\ elapsed[t] >= ticks_to_wait


C18_SwitchRequested ==
    usable =>
      \A v \in Values :
        LET p == Queue_ISR_put(q_store, v, max_full)
            b == Queue_ISR_butt_in(q_store, v)
        IN  /\ shouldSwitch(p) => p.yield
            /\ shouldSwitch(b) => b.yield


\* C19: a task suspended in get with the default (infinite) wait stays
\* suspended until the queue holds an item; its get ends only by taking the
\* head item into the caller's variable; and with that task the only
\* consumer, once an item has been enqueued the get does return.
C19_BlockedGetDelivers ==
    /\ [][ (q_pc[Consumer] = "get" /\ q_pc'[Consumer] # "get") =>
              /\ q_store.items # <<>>
              /\ recv_item' = Head(q_store.items)
              /\ q_store'.items = Tail(q_store.items)
              /\ q_last' = [op |-> "get", ret |-> TRUE] ]_vars
    /\ (q_pc[Consumer] = "get" /\ q_store.items # <<>>)
          ~> (q_pc[Consumer] = "idle")

\* the consumer is suspended in get and a put has just enqueued an item
C19_Witness ==
    /\ ticks_to_wait = portMAX_DELAY
    /\ q_pc[Consumer] = "get"
    /\ q_store.items # <<>>
    /\ q_last.op \in {"put", "ISR_put"} /\ q_last.ret


\* C20 (as claimed): with a finite wait time W, every put, butt_in, get and
\* peek a task makes returns no later than W ticks after it was called.
C20_ReturnsWithinWait ==
    [][ \A t \in Tasks :
          (q_pc[t] # "idle" /\ q_pc'[t] = "idle")
              => elapsed[t] <= ticks_to_wait ]_vars

\* C20 (amended): with a finite wait time W, a task is suspended in the
\* kernel call of put, butt_in, get or peek for at most W ticks.
C20_SuspendedWithinWait ==
    \A t \in Tasks : Suspended(t) => elapsed[t] <= ticks_to_wait

\* a peek has been suspended on the empty queue for the whole wait time
C20_Witness ==
    /\ is_empty
    /\ \E t \in Tasks : q_pc[t] = "peek" /\ elapsed[t] = ticks_to_wait


\* the kernel call of a peek or ISR_peek has ended with an item
PeekFound ==
    /\ q_last'.op \in {"peek", "ISR_peek"}
    /\ q_last'.ret

\* C21: peek does not consume.  A peek or ISR_peek that found an item leaves
\* the queue's contents and occupancy as they were and hands out the head
\* item; a get made next would return that same item, and when the next
\* kernel call to complete is a get, it does.
C21_PeekKeepsItem ==
    [][ /\ PeekFound =>
              /\ q_store.items # <<>>
              /\ q_store' = q_store
              /\ balance' = balance
              /\ recv_item' = Head(q_store.items)
              /\ Queue_get(q_store', recv_item', ticks_to_wait).out = recv_item'
        /\ (q_last.op \in {"peek", "ISR_peek"} /\ q_last.ret /\ Dequeued) =>
              recv_item' = recv_item ]_vars

\* an ISR_peek has found the one item of the queue, which is still there
C21_Witness ==
    /\ q_last = [op |-> "ISR_peek", ret |-> TRUE]
    /\ balance = 1
    /\ q_store.items # <<>>
    /\ recv_item = Head(q_store.items)


C23_ISRGetDefault ==
    ( /\ sh_last.op = "ISR_get_val"
      /\ sh_lastWrite = NoVal )
        => sh_var[ISR] = 0


\* C24: allocation failure is benign.  usable () is true exactly when the
\* kernel created the queue, and a queue whose creation failed is an empty
\* queue on which no call ends in a fault.
C24_FailureBenign ==
    /\ usable <=> q_store.uxLength = queue_size
    /\ ~usable => /\ ~fault
                  /\ available = 0
                  /\ is_empty
                  /\ recv_item = NoVal


\* ---------------------------------------------------- properties of Mutex

TakeEnded(t) ==
    /\ mx_last'.op = "take"
    /\ mx_last'.task = t
    /\ \/ mx_last' # mx_last
       \/ mx_pc[t] = "take" /\ mx_pc'[t] = "idle"

\* C26: take returns true exactly when the caller acquired the mutex in that
\* call.  A take that returns false while another task holds the mutex has
\* waited the configured timeout, leaves that task the holder and does not
\* make the caller one.
C26_TakeResult ==
    [][ \A t \in Tasks : TakeEnded(t) =>
          /\ mx_last'.ret <=> (mx_sem.holder = NoTask /\ mx_sem'.holder = t)
          /\ (~mx_last'.ret /\ mx_sem.holder # t) =>
                /\ mx_sem' = mx_sem
                /\ mx_sem'.holder \notin {NoTask, t}
                /\ ~mx_held'[t]
                /\ mx_held'[mx_sem'.holder]
                /\ mx_elapsed[t] = mx_timeout ]_vars

\* a take has waited out a nonzero timeout and returned false while the
\* other task still holds the mutex
C26_Witness ==
    \E t \in Tasks :
        /\ mx_last = [op |-> "take", task |-> t, ret |-> FALSE]
        /\ mx_result[t] = pdFALSE
        /\ mx_timeout > 0
        /\ mx_sem.holder \notin {NoTask, t}
        /\ mx_pc[t] = "idle"

\* --------------------------------------------------- properties of names

Min(a, b) == IF a <= b THEN a ELSE b

\* C29: display name.  After an entry is constructed with a non-null name
\* s, its name read as a NUL-terminated string is the first
\* min(length(s), 15) characters of s, whatever the 16 bytes of the name
\* buffer held before; with a null name it is "(No Name)".
C29_DisplayName ==
    nm_done =>
        nm_str = IF nm_arg.null THEN NoName
                 ELSE SubSeq(nm_arg.str, 1, Min(Len(nm_arg.str), 15))

\* ------------------------------------------------ properties of the list

\* C27: walk order.  With entries constructed in the order e1..en, n >= 1,
\* print_all_shares runs print_in_list on en, then en-1, ..., then e1, each
\* exactly once, and ends.
C27_WalkOrder ==
    (rg_state # "idle" /\ Len(entries) >= 1) =>
        /\ rg_state = "printed"
        /\ rg_visited = [k \in 1..Len(entries) |-> Len(entries) + 1 - k]
        /\ Len(rg_out) = 2 + Len(entries)
        /\ \A k \in 1..Len(entries) :
              rg_out[2 + k] = print_in_list(entries[Len(entries) + 1 - k])

C27_Witness ==
    /\ rg_state = "printed"
    /\ rg_visited = <<2, 1>>
    /\ entries[2].kind = "queue" /\ entries[1].kind = "share"

\* C28: for any number n >= 0 of entries, none included, print_all_shares
\* prints the two header lines and then exactly n lines, one per entry,
\* and returns without a fault.
C28_AnyNumber ==
    rg_state # "idle" =>
        /\ rg_state = "printed"
        /\ Len(rg_out) = 2 + Len(entries)
        /\ rg_out[1] = Header1 /\ rg_out[2] = Header2

\* the line the report is to hold for a queue named str, asked for with
\* capacity places, whose creation went well or not, at its fullest peak
QueueLine(str, created, peak, capacity) ==
    Pad16(str) \o <<"q", "u", "e", "u", "e", "\t">>
    \o (IF created THEN Dec(peak) \o <<"/">> \o Dec(capacity) ELSE UNUSABLE)

\* the name of the queue of main.cpp
Queue01 == <<"Q", "u", "e", "u", "e", SPACE, "0", ".", "1">>

\* C30: the line of a queue.  print_in_list prints the name left-justified
\* in 16 columns, the tag "queue", a tab, and then max_full/capacity
\* exactly when the queue is usable and UNUSABLE exactly when its creation
\* failed; capacity 10, peak 7, name "Queue 0.1" gives 7/10.
C30_QueueLine ==
    /\ Queue_print_in_list([Queue_entry(Str(Queue01), 10, TRUE, NULL, 1)
                               EXCEPT !.max_full = 7])
         = Pad16(Queue01) \o <<"q", "u", "e", "u", "e", "\t", "7", "/", "1", "0">>
    /\ Len(Pad16(Queue01)) = 16
    /\ rg_state = "printed" =>
          \A k \in 1..Len(rg_visited) :
              LET e == entries[rg_visited[k]] IN
              e.kind = "queue" =>
                  rg_out[2 + k] =
                      QueueLine(IF e.arg.null THEN NoName ELSE e.arg.str,
                                e.handle # NULL, e.max_full, e.size)

\* ------------------------- properties of the queue without preemption

\* C31: the high-water mark is the true peak.  Without preemption, after
\* any sequence of put, butt_in, ISR_put, ISR_butt_in, get and peek,
\* max_full is the most items the queue has held since it was created.
C31_MarkIsPeak ==
    sq_max_full = sq_peak

\* C32: put changes the high-water mark only on success.  A put or ISR_put
\* that returns false leaves max_full as it was; one that returns true
\* sets it to the larger of the previous max_full and the number of items
\* right after the enqueue.
C32_MarkOnSuccess ==
    [][ (sq_last'.op \in {"put", "ISR_put"} /\ sqvars' # sqvars) =>
            IF sq_last'.ret
            THEN sq_max_full' = Max(sq_max_full,
                                    uxQueueMessagesWaiting(sq_store'))
            ELSE sq_max_full' = sq_max_full ]_vars

\* C37: TextQueue::write returns the number of characters written into the
\* queue: 1, with the character appended at the tail, when the enqueue
\* succeeded, and not 1 when the underlying put failed.
C37_WriteCount ==
    sq_last.op = "write" =>
        /\ sq_last.n = 1 <=> sq_last.ret
        /\ sq_last.ret =>
              /\ sq_store.items # <<>>
              /\ sq_store.items[Len(sq_store.items)] = sq_last.item

\* C38: name-length arithmetic.  For every length L of the name supplied,
\* lengths of 256 and more included, the number of characters copied into
\* the entry's name is min(L, 15).
C38_NameLength ==
    (nm_done /\ ~nm_arg.null) =>
        LET L == Len(nm_arg.str) IN
        /\ namelength(nm_arg.str) = Min(L, 15)
        /\ \A i \in 1..Min(L, 15) : nm_buf[i] = nm_arg.str[i]

NoCtorRuns == \A t \in Tasks : rg_ctor[t] = NULL

\* C36 as stated: registration tolerates preemption.  When the constructors
\* of two entries interleave, both entries can still be reached from
\* p_newest once both are done, and a walk visits each exactly once.
C36_PreemptionTolerated ==
    NoCtorRuns =>
        /\ Len(ChainNow) = Len(entries)
        /\ Range(ChainNow) = 1..Len(entries)
        /\ rg_state = "printed" => Range(rg_visited) = 1..Len(entries)

\* C36 amended: registration does not tolerate preemption.  The entry
\* whose constructor ends becomes p_newest with the p_next it read at its
\* start; when another entry registered in between, that entry can no
\* longer be reached from p_newest, and the walk leaves it out.  The chain
\* itself stays without cycle and without duplicates.
C36_InterleavedLosesEntry ==
    /\ [](/\ Len(ChainNow) <= Len(entries)
          /\ Cardinality(Range(ChainNow)) = Len(ChainNow)
          /\ rg_state = "printed" => rg_visited = ChainNow)
    /\ [][ \A t \in Tasks :
             (rg_ctor[t] # NULL /\ rg_ctor'[t] = NULL) =>
                 LET e == rg_ctor[t] IN
                 /\ p_newest' = e
                 /\ ChainNow' = <<e>> \o Chain(entries, entries[e].p_next,
                                               Len(entries))
                 /\ p_newest # entries[e].p_next =>
                        p_newest \notin Range(ChainNow') ]_vars

C36_Witness ==
    /\ NoCtorRuns
    /\ Len(entries) = 2
    /\ p_newest = 1
    /\ rg_state = "printed"
    /\ rg_visited = <<1>>

\* ------------------------------------------------ properties of the demo

\* C33: no torn or invented values.  Under any interleaving, every value
\* delivered by get or peek of the queue or by a read of the share is, in
\* full, a value passed to an earlier put on the same object; in the demo
\* the two halves of every value read from the queue and from the share
\* are equal.
C33_NoInventedValues ==
    /\ recv_item # NoVal => HalvesEqual(recv_item)
    /\ (sh_last.ctx = Receiver /\ sh_last.op \in {">>", "get"}) =>
          HalvesEqual(sh_var[Receiver])

\* ------------------------------------ properties of several consumers

\* C34: exactly-once delivery with several consumers.  When two tasks, or
\* a task and an ISR, call get / ISR_get on the same queue concurrently,
\* every item enqueued is delivered to exactly one of them: a delivery
\* hands the head to the one caller whose call ends and takes it out of
\* the queue, no other step takes an item out, and what the queue holds is
\* what was enqueued and not yet delivered.
C34_ExactlyOnce ==
    /\ [](uxQueueMessagesWaiting(q_store) = balance)
    /\ [][ /\ Dequeued =>
                /\ q_store.items # <<>>
                /\ recv_item' = Head(q_store.items)
                /\ q_store'.items = Tail(q_store.items)
                /\ q_last'.op \in {"get", "ISR_get"} /\ q_last'.ret
           /\ ~Dequeued =>
                \/ q_store'.items = q_store.items
                \/ \E v \in Values :
                      \/ q_store'.items = Append(q_store.items, v)
                      \/ q_store'.items = <<v>> \o q_store.items
           /\ Cardinality({t \in Tasks :
                             q_pc[t] = "get" /\ q_pc'[t] = "idle"}) <= 1
           /\ \A t \in Tasks :
                 (q_pc[t] = "get" /\ q_pc'[t] = "idle") => Dequeued ]_vars

C34_Witness ==
    /\ q_last = [op |-> "get", ret |-> TRUE]
    /\ \E t \in Tasks : q_pc[t] = "get"
    /\ recv_item # NoVal
    /\ q_store.items = <<>>
    /\ balance = 0

====
